---- MODULE Spec2Model ----
(***************************************************************************)
(* DevMode consensus of the Sawtooth validator                             *)
(* (journal/consensus/dev_mode/dev_mode_consensus.py): BlockPublisher,     *)
(* BlockVerifier and ForkResolver.                                         *)
(*                                                                         *)
(* Time is counted in whole seconds.  Strings are sequences of code        *)
(* points, byte strings are sequences of bytes 0..255.  A 32-bit word is   *)
(* a pair <<hi, lo>> of 16-bit halves, a 128-bit number is the sequence of *)
(* its 16 base-256 digits, most significant first.                         *)
(***************************************************************************)
EXTENDS Integers, Sequences, FiniteSets, TLC

\* ------------------------------------------------------------------ bounds
\* Largest value of the clock.
MaxTime == 2
\* Largest wait time (seconds) stored in the settings; the smallest is -1.
MaxWait == 2
\* Largest block number of a fork head; the smallest is 1.
MaxBlockNum == 2

\* The value None of Python.
PyNone == [type |-> "NoneType"]

\* A Python list of the items l.
PyList(l) == [type |-> "list", items |-> l]

\* ------------------------------------------------------------ hashlib.md5
TwoTo16 == 65536

RECURSIVE Pow2(_)
Pow2(n) == IF n = 0 THEN 1 ELSE 2 * Pow2(n - 1)

\* x + y modulo 2^32.
Add32(x, y) ==
    LET lo == x[2] + y[2]
    IN  <<(x[1] + y[1] + (lo \div TwoTo16)) % TwoTo16, lo % TwoTo16>>

\* x rotated left by s bits, 0 < s < 32.
RotL32(x, s) ==
    LET h == IF s >= 16 THEN x[2] ELSE x[1]
        l == IF s >= 16 THEN x[1] ELSE x[2]
        t == IF s >= 16 THEN s - 16 ELSE s
    IN  <<((h * Pow2(t)) % TwoTo16) + (l \div Pow2(16 - t)),
          ((l * Pow2(t)) % TwoTo16) + (h \div Pow2(16 - t))>>

\* The bit function of round r (0..3) of MD5 on the bits b, c, d:
\* (b & c) | (~b & d), (d & b) | (~d & c), b ^ c ^ d, c ^ (b | ~d).
MD5Bit(r, b, c, d) ==
    CASE r = 0 -> b * c + (1 - b) * d
      [] r = 1 -> d * b + (1 - d) * c
      [] r = 2 -> (b + c + d) % 2
      [] r = 3 -> (c + (IF b = 1 \/ d = 0 THEN 1 ELSE 0)) % 2

\* MD5Bit applied to the n low bits of the numbers b, c, d.
RECURSIVE MD5Mix16(_, _, _, _, _)
MD5Mix16(r, b, c, d, n) ==
    IF n = 0 THEN 0
    ELSE MD5Bit(r, b % 2, c % 2, d % 2)
         + 2 * MD5Mix16(r, b \div 2, c \div 2, d \div 2, n - 1)

MD5Mix(r, b, c, d) ==
    <<MD5Mix16(r, b[1], c[1], d[1], 16), MD5Mix16(r, b[2], c[2], d[2], 16)>>

\* floor(2^32 * abs(sin(i + 1))), i = 0..63.
MD5K ==
    << <<55146, 42104>>, <<59591, 46934>>, <<9248, 28891>>, <<49597, 52974>>,
       <<62844, 4015>>, <<18311, 50730>>, <<43056, 17939>>, <<64838, 38145>>,
       <<27008, 39128>>, <<35652, 63407>>, <<65535, 23473>>, <<35164, 55230>>,
       <<27536, 4386>>, <<64920, 29075>>, <<42617, 17294>>, <<18868, 2081>>,
       <<63006, 9570>>, <<49216, 45888>>, <<9822, 23121>>, <<59830, 51114>>,
       <<54831, 4189>>, <<580, 5203>>, <<55457, 59009>>, <<59347, 64456>>,
       <<8673, 52710>>, <<49975, 2006>>, <<62677, 3463>>, <<17754, 5357>>,
       <<43491, 59653>>, <<64751, 41976>>, <<26479, 729>>, <<36138, 19594>>,
       <<65530, 14658>>, <<34673, 63105>>, <<28061, 24866>>, <<64997, 14348>>,
       <<42174, 59972>>, <<19422, 53161>>, <<63163, 19296>>, <<48831, 48240>>,
       <<10395, 32454>>, <<60065, 10234>>, <<54511, 12421>>, <<1160, 7429>>,
       <<55764, 53305>>, <<59099, 39397>>, <<8098, 31992>>, <<50348, 22117>>,
       <<62505, 8772>>, <<17194, 65431>>, <<43924, 9127>>, <<64659, 41017>>,
       <<25947, 22979>>, <<36620, 52370>>, <<65519, 62589>>, <<34180, 24017>>,
       <<28584, 32335>>, <<65068, 59104>>, <<41729, 17172>>, <<19976, 4513>>,
       <<63315, 32386>>, <<48442, 62005>>, <<10967, 53947>>, <<60294, 54161>> >>

\* The per-step shift amounts, by round.
MD5S ==
    << <<7, 12, 17, 22>>, <<5, 9, 14, 20>>, <<4, 11, 16, 23>>,
       <<6, 10, 15, 21>> >>

\* The index of the message word used in step i.
MD5G(i) ==
    CASE i < 16 -> i
      [] i >= 16 /\ i < 32 -> (5 * i + 1) % 16
      [] i >= 32 /\ i < 48 -> (3 * i + 5) % 16
      [] i >= 48 -> (7 * i) % 16

\* Step i (0..63) of the compression of the 16-word block M on the
\* registers st = <<A, B, C, D>>.
MD5Step(st, M, i) ==
    LET r == i \div 16
        f == Add32(Add32(Add32(MD5Mix(r, st[2], st[3], st[4]), st[1]),
                         MD5K[i + 1]), M[MD5G(i) + 1])
    IN  <<st[4], Add32(st[2], RotL32(f, MD5S[r + 1][(i % 4) + 1])),
          st[2], st[3]>>

\* Steps i..16r+15 of round r.  (The registers after a step are bound as
\* the element of a singleton set, which makes them a value before the next
\* step starts.)
RECURSIVE MD5Round(_, _, _, _)
MD5Round(st, M, r, i) ==
    IF i = 16 * (r + 1) THEN st
    ELSE CHOOSE out \in {MD5Round(nx, M, r, i + 1) :
                             nx \in {MD5Step(st, M, i)}} : TRUE

\* The registers after the block M: the four rounds, added to the input.
MD5Block(st, M) ==
    CHOOSE res \in
        { [j \in 1..4 |-> Add32(st[j], r3[j])] :
            r3 \in { MD5Round(r2, M, 3, 48) :
              r2 \in { MD5Round(r1, M, 2, 32) :
                r1 \in { MD5Round(r0, M, 1, 16) :
                  r0 \in { MD5Round(st, M, 0, 0) } } } } } : TRUE

\* n zero bytes.
Zeros(n) == [j \in 1..n |-> 0]

\* The 8 bytes of the length in bits of a message of n bytes, least
\* significant first (n < 2^28).
MD5Length(n) ==
    LET bits == 8 * n
    IN  <<bits % 256, (bits \div 256) % 256, (bits \div 65536) % 256,
          (bits \div 16777216) % 256, 0, 0, 0, 0>>

\* The message followed by 0x80, zeros up to 56 modulo 64 and its length.
MD5Pad(msg) ==
    LET n == Len(msg)
    IN  msg \o <<128>> \o Zeros((119 - (n % 64)) % 64) \o MD5Length(n)

\* Word j (1..16) of block k (0..) of the padded message p, little-endian.
MD5Word(p, k, j) ==
    LET o == 64 * k + 4 * (j - 1)
    IN  <<p[o + 3] + 256 * p[o + 4], p[o + 1] + 256 * p[o + 2]>>

RECURSIVE MD5Blocks(_, _, _)
MD5Blocks(st, p, k) ==
    IF 64 * k >= Len(p) THEN st
    ELSE MD5Blocks(MD5Block(st, [j \in 1..16 |-> MD5Word(p, k, j)]), p, k + 1)

MD5Init ==
    << <<26437, 8961>>, <<61389, 43913>>, <<39098, 56574>>, <<4146, 21622>> >>

\* The four bytes of the word w, least significant first.
WordBytes(w) == <<w[2] % 256, w[2] \div 256, w[1] % 256, w[1] \div 256>>

\* hashlib.md5 of the bytes msg: the 16 bytes of the digest.
MD5(msg) ==
    LET st == MD5Blocks(MD5Init, MD5Pad(msg), 0)
    IN  WordBytes(st[1]) \o WordBytes(st[2]) \o WordBytes(st[3])
        \o WordBytes(st[4])

\* str.encode(): the UTF-8 bytes of a string of code points below 2048.
RECURSIVE encode(_)
encode(s) ==
    IF s = <<>> THEN <<>>
    ELSE (IF Head(s) < 128 THEN <<Head(s)>>
          ELSE <<192 + (Head(s) \div 64), 128 + (Head(s) % 64)>>)
         \o encode(Tail(s))

\* a < b for two numbers of the same number of base-256 digits.
RECURSIVE NumLess(_, _)
NumLess(a, b) ==
    IF a = <<>> THEN FALSE
    ELSE IF Head(a) # Head(b) THEN Head(a) < Head(b)
    ELSE NumLess(Tail(a), Tail(b))

\* ------------------------------------------------------------ the values
\* Signer public keys and block ids are strings: "a", "ab" and "bc", "c",
\* "d", "e" ("a" + "bc" and "ab" + "c" are the same text).
SignerKeys == {<<97>>, <<97, 98>>}
PreviousIds == {<<98, 99>>, <<99>>}
Identifiers == {<<100>>, <<101>>}
Strings == SignerKeys \cup PreviousIds \cup Identifiers

\* The values of a wait time setting.
WaitValues == (0 - 1)..MaxWait

\* The values of the valid_block_publishers setting.
PublisherLists == {PyList(<<>>), PyList(<< <<97>> >>)}

\* An entry of a state view: absent, present and malformed, or present
\* with a value of the type asked for.
Absent == [tag |-> "absent"]
Malformed == [tag |-> "malformed"]
Value(v) == [tag |-> "value", value |-> v]

MinKey == "sawtooth.consensus.min_wait_time"
MaxKey == "sawtooth.consensus.max_wait_time"
PublishersKey == "sawtooth.consensus.valid_block_publishers"

\* The state view with the three entries mn, mx, vp.
View(mn, mx, vp) ==
    (MinKey :> mn) @@ (MaxKey :> mx) @@ (PublishersKey :> vp)

\* The state roots: a root <<what, v>> names what its state sets.
StateRoots ==
    {<<"none", 0>>, <<"malformed", 0>>}
    \cup {<<"min", m>> : m \in 0..MaxWait}
    \cup {<<"max", m>> : m \in WaitValues}
    \cup {<<"publishers", l>> : l \in PublisherLists}

\* The state roots of the candidate blocks.
CandidateRoots == {<<"min", 1>>}

\* StateViewFactory.create_view: the state at a state root.
create_view(state_root_hash) ==
    CASE state_root_hash[1] = "none" -> View(Absent, Absent, Absent)
      [] state_root_hash[1] = "malformed" ->
            View(Malformed, Malformed, Malformed)
      [] state_root_hash[1] = "min" ->
            View(Value(state_root_hash[2]), Absent, Absent)
      [] state_root_hash[1] = "max" ->
            View(Absent, Value(state_root_hash[2]), Absent)
      [] state_root_hash[1] = "publishers" ->
            View(Absent, Absent, Value(state_root_hash[2]))

\* ConfigView.get_setting: the entry of the key, the default when the
\* entry is absent or malformed.
get_setting(state_view, key, default_value, value_type) ==
    IF state_view[key].tag = "value" THEN state_view[key].value
    ELSE default_value

\* random.uniform(0, b) in place of random.uniform(a, b).
uniform_from_zero(a, b) ==
    {w \in WaitValues : (0 <= w /\ w <= b) \/ (b <= w /\ w <= 0)}

\* random.uniform(a, b): a + (b - a) * random(), any of the values between
\* a and b, whichever is the larger.
uniform(a, b) ==
    {w \in WaitValues : (a <= w /\ w <= b) \/ (b <= w /\ w <= a)}

\* ------------------------------------------------------------- the state
VARIABLES
    now,                     \* time.time()
    chain_head,              \* block_cache.block_store.chain_head
    block_header,            \* the candidate block's header
    start_time,              \* BlockPublisher._start_time
    wait_time,               \* BlockPublisher._wait_time
    min_wait_time,           \* BlockPublisher._min_wait_time
    max_wait_time,           \* BlockPublisher._max_wait_time
    valid_block_publishers,  \* BlockPublisher._valid_block_publishers
    ret,                     \* the call made at this time and what it returned
    fork,                    \* per node, the two heads given to compare_forks
    fork_ret,                \* per node, what compare_forks returned
    candidates,              \* the heads the nodes of the network receive
    pending                  \* per node, the heads it has yet to receive

publisher == <<start_time, wait_time, min_wait_time, max_wait_time,
               valid_block_publishers>>
vars == <<now, chain_head, block_header, start_time, wait_time, min_wait_time,
          max_wait_time, valid_block_publishers, ret, fork, fork_ret,
          candidates, pending>>

\* ------------------------------------------------------ BlockPublisher
\* BlockPublisher.__init__ and the node before any call.
Init ==
    /\ now = 0
    /\ chain_head = PyNone
    /\ block_header \in [consensus : {""}, signer_pubkey : SignerKeys,
                         state_root_hash : CandidateRoots]
    /\ start_time = 0
    /\ wait_time = 0
    /\ min_wait_time = 0
    /\ max_wait_time = 0
    /\ valid_block_publishers = PyNone
    /\ ret = [op |-> "none"]
    /\ fork = <<>>
    /\ fork_ret = <<>>
    /\ candidates = {}
    /\ pending = <<>>

\* initialize_block reading the candidate header's own state root whatever
\* the chain head.
initialize_block_own_root ==
    LET state_root_hash == block_header.state_root_hash
        state_view == create_view(state_root_hash)
        mn == get_setting(state_view, MinKey, min_wait_time, "int")
        mx == get_setting(state_view, MaxKey, max_wait_time, "int")
        vp == get_setting(state_view, PublishersKey, valid_block_publishers,
                          "list")
    IN  /\ min_wait_time' = mn
        /\ max_wait_time' = mx
        /\ valid_block_publishers' = vp
        /\ block_header' = [block_header EXCEPT !.consensus = "Devmode"]
        /\ start_time' = now
        /\ wait_time' \in uniform(mn, mx)
        /\ ret' = [op |-> "initialize_block", value |-> "True"]
        /\ UNCHANGED <<now, chain_head, fork, fork_ret,
                 candidates, pending>>

\* BlockPublisher.initialize_block(block_header)
initialize_block ==
    LET state_root_hash ==
            IF chain_head # PyNone THEN chain_head.state_root_hash
            ELSE block_header.state_root_hash
        state_view == create_view(state_root_hash)
        mn == get_setting(state_view, MinKey, min_wait_time, "int")
        mx == get_setting(state_view, MaxKey, max_wait_time, "int")
        vp == get_setting(state_view, PublishersKey, valid_block_publishers,
                          "list")
    IN  /\ min_wait_time' = mn
        /\ max_wait_time' = mx
        /\ valid_block_publishers' = vp
        /\ block_header' = [block_header EXCEPT !.consensus = "Devmode"]
        /\ start_time' = now
        /\ wait_time' \in uniform(mn, mx)
        /\ ret' = [op |-> "initialize_block", value |-> "True"]
        /\ UNCHANGED <<now, chain_head, fork, fork_ret,
                 candidates, pending>>

\* x not in the Python list l.
NotIn(x, l) == \A i \in 1..Len(l.items) : l.items[i] # x

\* The truth value of a list or None: a non-empty list.
Truthy(l) == l.type = "list" /\ Len(l.items) > 0

\* check_publish_block with the test of min_wait_time before the test of
\* the publishers.
check_publish_block_value_wait_first(header, t) ==
    IF min_wait_time = 0
    THEN "True"
    ELSE IF /\ Truthy(valid_block_publishers)
            /\ NotIn(header.signer_pubkey, valid_block_publishers)
    THEN "False"
    ELSE IF min_wait_time > 0 /\ max_wait_time <= 0
    THEN (IF start_time + min_wait_time <= t THEN "True" ELSE "None")
    ELSE IF min_wait_time > 0 /\ max_wait_time > min_wait_time
    THEN (IF start_time + wait_time <= t THEN "True" ELSE "None")
    ELSE "False"

\* check_publish_block waiting for the wait time when min_wait_time = 0.
check_publish_block_value_zero_waits(header, t) ==
    IF /\ Truthy(valid_block_publishers)
       /\ NotIn(header.signer_pubkey, valid_block_publishers)
    THEN "False"
    ELSE IF min_wait_time = 0
    THEN (IF start_time + wait_time <= t THEN "True" ELSE "None")
    ELSE IF min_wait_time > 0 /\ max_wait_time <= 0
    THEN (IF start_time + min_wait_time <= t THEN "True" ELSE "None")
    ELSE IF min_wait_time > 0 /\ max_wait_time > min_wait_time
    THEN (IF start_time + wait_time <= t THEN "True" ELSE "None")
    ELSE "False"

\* check_publish_block with the fixed delay compared by < in place of <=.
check_publish_block_value_strict(header, t) ==
    IF /\ Truthy(valid_block_publishers)
       /\ NotIn(header.signer_pubkey, valid_block_publishers)
    THEN "False"
    ELSE IF min_wait_time = 0
    THEN "True"
    ELSE IF min_wait_time > 0 /\ max_wait_time <= 0
    THEN (IF start_time + min_wait_time < t THEN "True" ELSE "None")
    ELSE IF min_wait_time > 0 /\ max_wait_time > min_wait_time
    THEN (IF start_time + wait_time <= t THEN "True" ELSE "None")
    ELSE "False"

\* check_publish_block taking equal bounds as a random delay.
check_publish_block_value_equal_bounds(header, t) ==
    IF /\ Truthy(valid_block_publishers)
       /\ NotIn(header.signer_pubkey, valid_block_publishers)
    THEN "False"
    ELSE IF min_wait_time = 0
    THEN "True"
    ELSE IF min_wait_time > 0 /\ max_wait_time <= 0
    THEN (IF start_time + min_wait_time <= t THEN "True" ELSE "None")
    ELSE IF min_wait_time > 0 /\ max_wait_time >= min_wait_time
    THEN (IF start_time + wait_time <= t THEN "True" ELSE "None")
    ELSE "False"

\* check_publish_block taking a max_wait_time up to min_wait_time as a
\* fixed delay.
check_publish_block_value_fixed_below(header, t) ==
    IF /\ Truthy(valid_block_publishers)
       /\ NotIn(header.signer_pubkey, valid_block_publishers)
    THEN "False"
    ELSE IF min_wait_time = 0
    THEN "True"
    ELSE IF min_wait_time > 0 /\ max_wait_time <= min_wait_time
    THEN (IF start_time + min_wait_time <= t THEN "True" ELSE "None")
    ELSE IF min_wait_time > 0 /\ max_wait_time > min_wait_time
    THEN (IF start_time + wait_time <= t THEN "True" ELSE "None")
    ELSE "False"

\* check_publish_block reading min_wait_time in the state of the chain
\* head at every poll.
check_publish_block_value_rereads(header, t) ==
    LET mn == IF chain_head # PyNone
              THEN get_setting(create_view(chain_head.state_root_hash),
                               MinKey, min_wait_time, "int")
              ELSE min_wait_time
    IN  IF /\ Truthy(valid_block_publishers)
           /\ NotIn(header.signer_pubkey, valid_block_publishers)
        THEN "False"
        ELSE IF mn = 0
        THEN "True"
        ELSE IF mn > 0 /\ max_wait_time <= 0
        THEN (IF start_time + mn <= t THEN "True" ELSE "None")
        ELSE IF mn > 0 /\ max_wait_time > mn
        THEN (IF start_time + wait_time <= t THEN "True" ELSE "None")
        ELSE "False"

\* check_publish_block publishing at the very end of the delay only.
check_publish_block_value_at_deadline(header, t) ==
    IF /\ Truthy(valid_block_publishers)
       /\ NotIn(header.signer_pubkey, valid_block_publishers)
    THEN "False"
    ELSE IF min_wait_time = 0
    THEN "True"
    ELSE IF min_wait_time > 0 /\ max_wait_time <= 0
    THEN (IF start_time + min_wait_time = t THEN "True" ELSE "None")
    ELSE IF min_wait_time > 0 /\ max_wait_time > min_wait_time
    THEN (IF start_time + wait_time = t THEN "True" ELSE "None")
    ELSE "False"

\* check_publish_block with the random delay compared by < in place of <=.
check_publish_block_value_strict_random(header, t) ==
    IF /\ Truthy(valid_block_publishers)
       /\ NotIn(header.signer_pubkey, valid_block_publishers)
    THEN "False"
    ELSE IF min_wait_time = 0
    THEN "True"
    ELSE IF min_wait_time > 0 /\ max_wait_time <= 0
    THEN (IF start_time + min_wait_time <= t THEN "True" ELSE "None")
    ELSE IF min_wait_time > 0 /\ max_wait_time > min_wait_time
    THEN (IF start_time + wait_time < t THEN "True" ELSE "None")
    ELSE "False"

\* What BlockPublisher.check_publish_block(header) returns at the time t.
check_publish_block_value(header, t) ==
    IF /\ Truthy(valid_block_publishers)
       /\ NotIn(header.signer_pubkey, valid_block_publishers)
    THEN "False"
    ELSE IF min_wait_time = 0
    THEN "True"
    ELSE IF min_wait_time > 0 /\ max_wait_time <= 0
    THEN (IF start_time + min_wait_time <= t THEN "True" ELSE "None")
    ELSE IF min_wait_time > 0 /\ max_wait_time > min_wait_time
    THEN (IF start_time + wait_time <= t THEN "True" ELSE "None")
    ELSE "False"

\* BlockPublisher.check_publish_block(block_header)
check_publish_block ==
    /\ ret' = [op |-> "check_publish_block",
               value |-> check_publish_block_value(block_header, now)]
    /\ UNCHANGED <<now, chain_head, block_header, publisher, fork, fork_ret,
                 candidates, pending>>

\* finalize_block starting the wait again.
finalize_block_restarts ==
    /\ ret' = [op |-> "finalize_block", value |-> "True"]
    /\ start_time' = now
    /\ UNCHANGED <<now, chain_head, block_header, wait_time, min_wait_time,
                   max_wait_time, valid_block_publishers, fork, fork_ret,
                   candidates, pending>>

\* BlockPublisher.finalize_block(block_header)
finalize_block ==
    /\ ret' = [op |-> "finalize_block", value |-> "True"]
    /\ UNCHANGED <<now, chain_head, block_header, publisher, fork, fork_ret,
                 candidates, pending>>

\* ------------------------------------------------------- BlockVerifier
\* The consensus fields of the blocks a node receives.
ReceivedConsensus == {"Devmode", "PoET"}

\* verify_block accepting every block with a consensus field.
verify_block_value_not_empty(block_wrapper) ==
    IF block_wrapper.header.consensus # "" THEN "True" ELSE "False"

\* What BlockVerifier.verify_block(block_wrapper) returns.
verify_block_value(block_wrapper) ==
    IF block_wrapper.header.consensus = "Devmode" THEN "True" ELSE "False"

\* BlockVerifier.verify_block on the candidate block or a received block.
verify_block ==
    /\ \E c \in ReceivedConsensus \cup {block_header.consensus} :
          ret' = [op |-> "verify_block", consensus |-> c,
                  value |-> verify_block_value([header |-> [consensus |-> c]])]
    /\ UNCHANGED <<now, chain_head, block_header, publisher, fork, fork_ret,
                 candidates, pending>>

\* ------------------------------------------------------------ the host
\* The clock advances; the value returned at the earlier time is history.
Tick ==
    /\ now < MaxTime
    /\ now' = now + 1
    /\ ret' = [op |-> "none"]
    /\ UNCHANGED <<chain_head, block_header, publisher, fork, fork_ret,
                 candidates, pending>>

\* A block is committed: the chain head is a block with the state root r.
SetChainHead ==
    /\ \E r \in StateRoots :
          chain_head' = [type |-> "block", state_root_hash |-> r]
    /\ chain_head' # chain_head
    /\ UNCHANGED <<now, block_header, publisher, ret, fork, fork_ret,
                 candidates, pending>>

\* The host assembles a new candidate block.
NewCandidate ==
    /\ block_header' \in [consensus : {""}, signer_pubkey : SignerKeys,
                          state_root_hash : CandidateRoots]
    /\ block_header' # block_header
    /\ ret' = [op |-> "none"]
    /\ UNCHANGED <<now, chain_head, publisher, fork, fork_ret,
                 candidates, pending>>

\* -------------------------------------------------------- ForkResolver
\* ForkResolver.hash_signer_pubkey: the MD5 digest of the two texts, one
\* after the other, read as a hexadecimal number.
hash_signer_pubkey(signer_pubkey, header_signature) ==
    MD5(encode(signer_pubkey) \o encode(header_signature))

\* hash_signer_pubkey of every two strings, computed once.
HashOf == [s \in Strings, p \in Strings |-> hash_signer_pubkey(s, p)]

\* compare_forks with the tie-break on the block's own id.
compare_forks_own_id(cur_fork_head, new_fork_head) ==
    IF new_fork_head.block_num = cur_fork_head.block_num
    THEN NumLess(HashOf[new_fork_head.header.signer_pubkey,
                        new_fork_head.identifier],
                 HashOf[cur_fork_head.header.signer_pubkey,
                        cur_fork_head.identifier])
    ELSE new_fork_head.block_num > cur_fork_head.block_num

\* compare_forks with the tie-break on the signer alone.
compare_forks_signer_only(cur_fork_head, new_fork_head) ==
    IF new_fork_head.block_num = cur_fork_head.block_num
    THEN NumLess(HashOf[new_fork_head.header.signer_pubkey, <<99>>],
                 HashOf[cur_fork_head.header.signer_pubkey, <<99>>])
    ELSE new_fork_head.block_num > cur_fork_head.block_num

\* compare_forks preferring the shorter chain.
compare_forks_shortest(cur_fork_head, new_fork_head) ==
    IF new_fork_head.block_num = cur_fork_head.block_num
    THEN NumLess(HashOf[new_fork_head.header.signer_pubkey,
                        new_fork_head.header.previous_block_id],
                 HashOf[cur_fork_head.header.signer_pubkey,
                        cur_fork_head.header.previous_block_id])
    ELSE new_fork_head.block_num < cur_fork_head.block_num

\* compare_forks preferring the greater tie-break integer.
compare_forks_greater_hash(cur_fork_head, new_fork_head) ==
    IF new_fork_head.block_num = cur_fork_head.block_num
    THEN NumLess(HashOf[cur_fork_head.header.signer_pubkey,
                        cur_fork_head.header.previous_block_id],
                 HashOf[new_fork_head.header.signer_pubkey,
                        new_fork_head.header.previous_block_id])
    ELSE new_fork_head.block_num > cur_fork_head.block_num

\* compare_forks taking the new head on a tie.
compare_forks_or_equal(cur_fork_head, new_fork_head) ==
    IF new_fork_head.block_num = cur_fork_head.block_num
    THEN ~NumLess(HashOf[cur_fork_head.header.signer_pubkey,
                         cur_fork_head.header.previous_block_id],
                  HashOf[new_fork_head.header.signer_pubkey,
                         new_fork_head.header.previous_block_id])
    ELSE new_fork_head.block_num > cur_fork_head.block_num

\* compare_forks keeping the head it has among the heads of one height.
compare_forks_first_seen(cur_fork_head, new_fork_head) ==
    new_fork_head.block_num > cur_fork_head.block_num

\* ForkResolver.compare_forks(cur_fork_head, new_fork_head)
compare_forks(cur_fork_head, new_fork_head) ==
    IF new_fork_head.block_num = cur_fork_head.block_num
    THEN LET cur_fork_hash ==
                 HashOf[cur_fork_head.header.signer_pubkey,
                        cur_fork_head.header.previous_block_id]
             new_fork_hash ==
                 HashOf[new_fork_head.header.signer_pubkey,
                        new_fork_head.header.previous_block_id]
         IN  NumLess(new_fork_hash, cur_fork_hash)
    ELSE new_fork_head.block_num > cur_fork_head.block_num

\* The nodes of the network, each with a ForkResolver of its own.
Nodes == {1, 2}

\* The blocks that can be the head of a fork.
Heads ==
    [identifier : Identifiers, block_num : 1..MaxBlockNum,
     header : [signer_pubkey : SignerKeys, previous_block_id : PreviousIds]]

\* The fields of a head that the blocks of one signer on one previous
\* block at one height share.
Fields(h) ==
    <<h.block_num, h.header.signer_pubkey, h.header.previous_block_id>>

\* Two nodes are given a fork: each has a current head and a new head.
\* Node 2 has the fork of node 1 or the opposite one (its current head is
\* the new head of node 1), in the same blocks or in other blocks with the
\* same fields.
InitFork ==
    /\ now = 0
    /\ chain_head = PyNone
    /\ block_header = [consensus |-> "", signer_pubkey |-> <<97>>,
                       state_root_hash |-> <<"min", 1>>]
    /\ start_time = 0
    /\ wait_time = 0
    /\ min_wait_time = 0
    /\ max_wait_time = 0
    /\ valid_block_publishers = PyNone
    /\ ret = [op |-> "none"]
    /\ fork \in [Nodes -> [cur_fork_head : Heads, new_fork_head : Heads]]
    /\ \/ /\ Fields(fork[2].cur_fork_head) = Fields(fork[1].cur_fork_head)
          /\ Fields(fork[2].new_fork_head) = Fields(fork[1].new_fork_head)
       \/ /\ Fields(fork[2].cur_fork_head) = Fields(fork[1].new_fork_head)
          /\ Fields(fork[2].new_fork_head) = Fields(fork[1].cur_fork_head)
    /\ fork_ret = [n \in Nodes |-> "none"]
    /\ candidates = {}
    /\ pending = <<>>

\* The ForkResolver of node n compares the heads of its fork.
CompareForks(n) ==
    /\ fork_ret' =
          [fork_ret EXCEPT ![n] =
              IF compare_forks(fork[n].cur_fork_head, fork[n].new_fork_head)
              THEN "True" ELSE "False"]
    /\ UNCHANGED <<now, chain_head, block_header, publisher, ret, fork,
                 candidates, pending>>

\* The clock of the nodes advances.
TickFork ==
    /\ now < MaxTime
    /\ now' = now + 1
    /\ UNCHANGED <<chain_head, block_header, publisher, ret, fork, fork_ret,
                 candidates, pending>>

NextFork ==
    \/ \E n \in Nodes : CompareForks(n)
    \/ TickFork

SpecFork == InitFork /\ [][NextFork]_vars

Next ==
    \/ initialize_block
    \/ check_publish_block
    \/ finalize_block
    \/ verify_block
    \/ Tick
    \/ SetChainHead
    \/ NewCandidate

Spec == Init /\ [][Next]_vars

\* ------------------------------------------ one node, the three classes
\* The heads of the forks given to the ForkResolvers of a node that also
\* publishes: blocks of one height.
FrameHeads ==
    {h \in Heads : h.identifier = <<100>> /\ h.block_num = MaxBlockNum}

\* A node with a BlockPublisher, a BlockVerifier and ForkResolvers, before
\* any call.
InitFrame ==
    /\ now = 0
    /\ chain_head = PyNone
    /\ block_header \in [consensus : {""}, signer_pubkey : SignerKeys,
                         state_root_hash : CandidateRoots]
    /\ start_time = 0
    /\ wait_time = 0
    /\ min_wait_time = 0
    /\ max_wait_time = 0
    /\ valid_block_publishers = PyNone
    /\ ret = [op |-> "none"]
    /\ fork \in [Nodes -> [cur_fork_head : FrameHeads,
                           new_fork_head : FrameHeads]]
    /\ \/ /\ fork[2].cur_fork_head = fork[1].cur_fork_head
          /\ fork[2].new_fork_head = fork[1].new_fork_head
       \/ /\ fork[2].cur_fork_head = fork[1].new_fork_head
          /\ fork[2].new_fork_head = fork[1].cur_fork_head
    /\ fork_ret = [n \in Nodes |-> "none"]
    /\ candidates = {}
    /\ pending = <<>>

\* The calls of the three classes, in any order as the clock advances.
NextFrame ==
    \/ initialize_block
    \/ check_publish_block
    \/ finalize_block
    \/ verify_block
    \/ \E n \in Nodes : CompareForks(n)
    \/ Tick

SpecFrame == InitFrame /\ [][NextFrame]_vars

\* ------------------------------------------------- the choice of a head
\* The most heads a network has to choose from.
MaxCandidates == 3

\* The heads the nodes receive are blocks with one identifier each.
ConvergeHeads == {h \in Heads : h.identifier = <<100>>}

\* The heads of c differ pairwise in block number or tie-break integer.
PairwiseDistinct(c) ==
    \A g \in c : \A h \in c \ {g} :
        \/ g.block_num # h.block_num
        \/ HashOf[g.header.signer_pubkey, g.header.previous_block_id]
               # HashOf[h.header.signer_pubkey, h.header.previous_block_id]

\* The sets of heads a network can have to choose from.
CandidateSets ==
    {c \in SUBSET ConvergeHeads :
        /\ Cardinality(c) \in 1..MaxCandidates
        /\ PairwiseDistinct(c)}

\* Every node starts from one of the heads and has yet to receive the
\* others.
InitConverge ==
    /\ now = 0
    /\ chain_head = PyNone
    /\ block_header = [consensus |-> "", signer_pubkey |-> <<97>>,
                       state_root_hash |-> <<"min", 1>>]
    /\ start_time = 0
    /\ wait_time = 0
    /\ min_wait_time = 0
    /\ max_wait_time = 0
    /\ valid_block_publishers = PyNone
    /\ ret = [op |-> "none"]
    /\ candidates \in CandidateSets
    /\ \E first \in [Nodes -> candidates] :
          /\ fork = [n \in Nodes |-> [cur_fork_head |-> first[n],
                                      new_fork_head |-> first[n]]]
          /\ pending = [n \in Nodes |-> candidates \ {first[n]}]
    /\ fork_ret = [n \in Nodes |-> "none"]

\* Node n receives the head h and replaces its current head exactly when
\* compare_forks(current, h) returns True.
ReceiveHead(n, h) ==
    /\ h \in pending[n]
    /\ pending' = [pending EXCEPT ![n] = pending[n] \ {h}]
    /\ LET switch == compare_forks(fork[n].cur_fork_head, h)
       IN  /\ fork' =
                 [fork EXCEPT ![n] =
                     [cur_fork_head |-> IF switch THEN h
                                        ELSE fork[n].cur_fork_head,
                      new_fork_head |-> h]]
           /\ fork_ret' =
                 [fork_ret EXCEPT ![n] = IF switch THEN "True" ELSE "False"]
    /\ UNCHANGED <<now, chain_head, block_header, publisher, ret, candidates>>

NextConverge ==
    \E n \in Nodes : \E h \in candidates : ReceiveHead(n, h)

SpecConverge == InitConverge /\ [][NextConverge]_vars

\* ============================================================== claims
\* The forks of the nodes m and n have the same fields, head by head.
SameFork(m, n) ==
    /\ Fields(fork[m].cur_fork_head) = Fields(fork[n].cur_fork_head)
    /\ Fields(fork[m].new_fork_head) = Fields(fork[n].new_fork_head)

\* The fork of node n is the fork of node m with the two heads exchanged.
OppositeFork(m, n) ==
    /\ Fields(fork[m].cur_fork_head) = Fields(fork[n].new_fork_head)
    /\ Fields(fork[m].new_fork_head) = Fields(fork[n].cur_fork_head)

\* The tie-break integer of a head.
TieBreak(h) == HashOf[h.header.signer_pubkey, h.header.previous_block_id]

\* C1: compare_forks is deterministic across nodes: two nodes whose forks
\* agree on block number, signer and previous block id of both heads get
\* the same result, whatever the other fields of the blocks and the time of
\* the call, and a node that calls it again gets the result it got before.
C1_Deterministic ==
    /\ [](\A m, n \in Nodes :
            (SameFork(m, n) /\ fork_ret[m] # "none" /\ fork_ret[n] # "none")
                => fork_ret[m] = fork_ret[n])
    /\ [][\A n \in Nodes :
            fork_ret[n] # "none" => fork_ret'[n] = fork_ret[n]]_vars

\* Two nodes have compared, at different times, forks of different blocks
\* with the same fields at one height.
C1_Witness ==
    /\ SameFork(1, 2)
    /\ fork[1].cur_fork_head.identifier # fork[2].cur_fork_head.identifier
    /\ fork[1].new_fork_head.identifier # fork[2].new_fork_head.identifier
    /\ fork[1].cur_fork_head.block_num = fork[1].new_fork_head.block_num
    /\ TieBreak(fork[1].cur_fork_head) # TieBreak(fork[1].new_fork_head)
    /\ fork_ret[1] = "True"
    /\ fork_ret[2] = "True"
    /\ now > 0

\* Node n has compared the heads a, b and node m the same blocks in the
\* other order.
ComparedBothWays(m, n) ==
    /\ fork[n].cur_fork_head = fork[m].new_fork_head
    /\ fork[n].new_fork_head = fork[m].cur_fork_head
    /\ fork_ret[m] # "none"
    /\ fork_ret[n] # "none"

\* C2 as stated: for any two distinct heads a and b, exactly one of
\* compare_forks(a, b) and compare_forks(b, a) is true.
C2_TotalOrder ==
    \A m, n \in Nodes :
        (ComparedBothWays(m, n)
         /\ fork[m].cur_fork_head # fork[m].new_fork_head)
            => (fork_ret[m] = "True") # (fork_ret[n] = "True")

\* C2 amended: for any two heads that differ in block number or in
\* tie-break integer, exactly one of compare_forks(a, b) and
\* compare_forks(b, a) is true.
C2_TotalOrderOfDifferent ==
    \A m, n \in Nodes :
        (ComparedBothWays(m, n)
         /\ \/ fork[m].cur_fork_head.block_num
                  # fork[m].new_fork_head.block_num
            \/ TieBreak(fork[m].cur_fork_head)
                  # TieBreak(fork[m].new_fork_head))
            => (fork_ret[m] = "True") # (fork_ret[n] = "True")

\* Two heads of different previous blocks at one height, compared both ways.
C2_Witness ==
    /\ ComparedBothWays(1, 2)
    /\ fork[1].cur_fork_head.block_num = fork[1].new_fork_head.block_num
    /\ fork[1].cur_fork_head.header.signer_pubkey
         = fork[1].new_fork_head.header.signer_pubkey
    /\ fork[1].cur_fork_head.header.previous_block_id
         # fork[1].new_fork_head.header.previous_block_id
    /\ fork_ret[1] = "True"
    /\ fork_ret[2] = "False"

\* C3: for heads of different block numbers compare_forks returns true
\* exactly when the new head has the greater block number, whatever the
\* signers and previous block ids; with the heads exchanged the result is
\* the opposite.
C3_LongestChain ==
    \A n \in Nodes :
        (fork_ret[n] # "none"
         /\ fork[n].cur_fork_head.block_num # fork[n].new_fork_head.block_num)
            => /\ (fork_ret[n] = "True")
                    <=> (fork[n].new_fork_head.block_num
                           > fork[n].cur_fork_head.block_num)
               /\ \A m \in Nodes :
                     (OppositeFork(m, n) /\ fork_ret[m] # "none")
                        => (fork_ret[m] = "True") # (fork_ret[n] = "True")

\* The longer fork wins on both nodes although its tie-break integer is
\* the greater one.
C3_Witness ==
    /\ OppositeFork(1, 2)
    /\ fork[1].new_fork_head.block_num > fork[1].cur_fork_head.block_num
    /\ NumLess(TieBreak(fork[1].cur_fork_head),
               TieBreak(fork[1].new_fork_head))
    /\ fork_ret[1] = "True"
    /\ fork_ret[2] = "False"

\* C4: for two heads of one block number whose tie-break integers differ,
\* compare_forks returns true exactly when the integer of the new head is
\* the smaller one; with the heads exchanged the result is the opposite.
C4_SmallerHashWins ==
    \A n \in Nodes :
        (fork_ret[n] # "none"
         /\ fork[n].cur_fork_head.block_num = fork[n].new_fork_head.block_num
         /\ TieBreak(fork[n].cur_fork_head)
              # TieBreak(fork[n].new_fork_head))
            => /\ (fork_ret[n] = "True")
                    <=> NumLess(TieBreak(fork[n].new_fork_head),
                                TieBreak(fork[n].cur_fork_head))
               /\ \A m \in Nodes :
                     (OppositeFork(m, n) /\ fork_ret[m] # "none")
                        => (fork_ret[m] = "True") # (fork_ret[n] = "True")

\* Two heads at one height with different signers and tie-break integers:
\* the node that holds the smaller one keeps it, the other node takes it.
C4_Witness ==
    /\ OppositeFork(1, 2)
    /\ fork[1].cur_fork_head.block_num = fork[1].new_fork_head.block_num
    /\ fork[1].cur_fork_head.header.signer_pubkey
         # fork[1].new_fork_head.header.signer_pubkey
    /\ NumLess(TieBreak(fork[1].cur_fork_head),
               TieBreak(fork[1].new_fork_head))
    /\ fork_ret[1] = "False"
    /\ fork_ret[2] = "True"

\* The signer of the candidate block may publish under the configuration
\* in effect: no list of valid publishers, an empty one, or one with it.
Authorized ==
    \/ valid_block_publishers = PyNone
    \/ valid_block_publishers.items = <<>>
    \/ \E i \in 1..Len(valid_block_publishers.items) :
          valid_block_publishers.items[i] = block_header.signer_pubkey

\* check_publish_block has just been called on the candidate block.
Polled == ret.op = "check_publish_block"

\* C5: verify_block returns true exactly for the blocks whose consensus
\* field is the marker "Devmode", and false for any other one, the empty
\* one included; a header that initialize_block has returned carries the
\* marker and passes verify_block, whatever configuration was read and
\* whether or not its signer may publish.
C5_VerifyMarker ==
    /\ ret.op = "verify_block"
          => ((ret.value = "True") <=> (ret.consensus = "Devmode"))
    /\ ret.op = "verify_block" => ret.value \in {"True", "False"}
    /\ ret.op = "initialize_block"
          => /\ block_header.consensus = "Devmode"
             /\ verify_block_value([header |-> block_header]) = "True"

\* The candidate block of a signer that may not publish has been
\* initialized and then verified.
C5_Witness ==
    /\ ret.op = "verify_block"
    /\ ret.consensus = block_header.consensus
    /\ ret.value = "True"
    /\ ~Authorized
    /\ min_wait_time > 0

\* C6: when the list of valid publishers read at initialize_block is not
\* empty and does not contain the signer of the header, check_publish_block
\* returns false, at every time and for every min_wait_time and
\* max_wait_time.
C6_UnauthorizedNeverPublishes ==
    (Polled /\ ~Authorized) => ret.value = "False"

\* A signer that may not publish polls with min_wait_time = 0.
C6_Witness ==
    /\ Polled
    /\ ~Authorized
    /\ block_header.consensus = "Devmode"
    /\ min_wait_time = 0
    /\ ret.value = "False"

\* C7: with min_wait_time = 0 and a signer that may publish,
\* check_publish_block returns true, also at the time of initialize_block
\* and for every max_wait_time.
C7_ZeroMinPublishesAtOnce ==
    (Polled /\ Authorized /\ min_wait_time = 0) => ret.value = "True"

\* The first poll, at the time of initialize_block, with a max_wait_time
\* above zero and a wait time above zero.
C7_Witness ==
    /\ Polled
    /\ Authorized
    /\ block_header.consensus = "Devmode"
    /\ min_wait_time = 0
    /\ max_wait_time > 0
    /\ wait_time > 0
    /\ now = start_time
    /\ ret.value = "True"

\* C8: with min_wait_time = M > 0, max_wait_time <= 0 and a signer that
\* may publish, check_publish_block returns true exactly when the time is
\* at least start_time + M.
C8_FixedDelay ==
    (Polled /\ Authorized /\ min_wait_time > 0 /\ max_wait_time <= 0)
        => ((ret.value = "True") <=> (now >= start_time + min_wait_time))

\* A poll at the very time start_time + M, of a block initialized after
\* time 0.
C8_Witness ==
    /\ Polled
    /\ Authorized
    /\ block_header.consensus = "Devmode"
    /\ min_wait_time > 0
    /\ max_wait_time <= 0
    /\ start_time > 0
    /\ now = start_time + min_wait_time
    /\ ret.value = "True"

\* C9: with 0 < min_wait_time = M < max_wait_time = X and a signer that may
\* publish, the wait time chosen by initialize_block is between M and X,
\* only initialize_block changes it, and check_publish_block returns true
\* exactly when the time is at least start_time + wait_time.
C9_RandomDelay ==
    /\ []((0 < min_wait_time /\ min_wait_time < max_wait_time)
            => /\ min_wait_time <= wait_time
               /\ wait_time <= max_wait_time
               /\ (Polled /\ Authorized)
                     => ((ret.value = "True")
                           <=> (now >= start_time + wait_time)))
    /\ [][wait_time' # wait_time => ret'.op = "initialize_block"]_vars

\* A poll at the very time start_time + wait_time, the wait time being
\* above M.
C9_Witness ==
    /\ Polled
    /\ Authorized
    /\ block_header.consensus = "Devmode"
    /\ 0 < min_wait_time
    /\ min_wait_time < wait_time
    /\ wait_time <= max_wait_time
    /\ now = start_time + wait_time
    /\ ret.value = "True"

\* C10 as stated: with min_wait_time = M > 0, max_wait_time <= M and a
\* signer that may publish, check_publish_block returns true once the time
\* is at least start_time + M.
C10_DegenerateIsFixedDelay ==
    (Polled /\ Authorized /\ min_wait_time > 0
     /\ max_wait_time <= min_wait_time /\ now >= start_time + min_wait_time)
        => ret.value = "True"

\* C10 amended: with min_wait_time = M > 0, max_wait_time <= M and a signer
\* that may publish, check_publish_block returns true once the time is at
\* least start_time + M when max_wait_time <= 0, and it returns false at
\* every time when 0 < max_wait_time <= M (equal bounds included).
C10_DegenerateNeverPublishes ==
    (Polled /\ Authorized /\ min_wait_time > 0
     /\ max_wait_time <= min_wait_time)
        => /\ (max_wait_time <= 0 /\ now >= start_time + min_wait_time)
                => ret.value = "True"
           /\ max_wait_time > 0 => ret.value = "False"

\* A poll under equal bounds after the time start_time + M.
C10_Witness ==
    /\ Polled
    /\ Authorized
    /\ block_header.consensus = "Devmode"
    /\ min_wait_time > 0
    /\ max_wait_time = min_wait_time
    /\ now > start_time + min_wait_time
    /\ ret.value = "False"

\* The configuration is the degenerate one: 0 < max_wait_time <=
\* min_wait_time.
Degenerate ==
    min_wait_time > 0 /\ 0 < max_wait_time /\ max_wait_time <= min_wait_time

\* C11: with min_wait_time > 0 and 0 < max_wait_time <= min_wait_time,
\* check_publish_block never returns true, at any time after
\* initialize_block and for any signer.
C11_DegenerateNeverTrue ==
    (Polled /\ Degenerate) => (ret.value # "True" /\ ret.value = "False")

\* A signer that may publish polls under a max_wait_time below
\* min_wait_time, after the time start_time + min_wait_time.
C11_Witness ==
    /\ Polled
    /\ Authorized
    /\ block_header.consensus = "Devmode"
    /\ Degenerate
    /\ max_wait_time < min_wait_time
    /\ now >= start_time + min_wait_time
    /\ ret.value = "False"

\* The state view that initialize_block reads in this state.
ViewRead ==
    create_view(IF chain_head # PyNone THEN chain_head.state_root_hash
                ELSE block_header.state_root_hash)

\* C12: at every initialize_block a setting that is absent or malformed in
\* the state view takes its fixed default (0, 0, None), also when an earlier
\* initialize_block read another value: the configuration in effect depends
\* only on the state view of the latest initialize_block.
C12_FixedDefaults ==
    [][(ret'.op = "initialize_block" /\ initialize_block)
         => /\ min_wait_time' = get_setting(ViewRead, MinKey, 0, "int")
            /\ max_wait_time' = get_setting(ViewRead, MaxKey, 0, "int")
            /\ valid_block_publishers'
                 = get_setting(ViewRead, PublishersKey, PyNone, "list")]_vars

\* C13: every call of check_publish_block returns a boolean, True or
\* False, in every branch, also before the deadline of a fixed or random
\* delay.
C13_ReturnsBoolean ==
    Polled => ret.value \in {"True", "False"}

\* What a poll of the candidate block returns in this state.
PollValue == check_publish_block_value(block_header, now)

\* C14: the configuration of a claim attempt is read at initialize_block and
\* only there: no other step changes it, the start time or the wait time,
\* and what a poll returns is the same before and after every step that
\* leaves these, the signer of the header and the time unchanged, such as a
\* change of the chain head.
C14_ConfigurationOfAttempt ==
    /\ [](Polled => ret.value = PollValue)
    /\ [][publisher' # publisher
            => (ret'.op = "initialize_block" /\ initialize_block)]_vars
    /\ [][(/\ publisher' = publisher
           /\ block_header'.signer_pubkey = block_header.signer_pubkey
           /\ now' = now)
             => PollValue' = PollValue]_vars

\* A poll has returned None before the deadline of a fixed delay read from
\* the chain head, and the chain head has since changed to a state with
\* min_wait_time = 0.
C14_Witness ==
    /\ Polled
    /\ ret.value = "None"
    /\ block_header.consensus = "Devmode"
    /\ min_wait_time > 0
    /\ chain_head # PyNone
    /\ chain_head.state_root_hash = <<"min", 0>>

\* C15: initialize_block reads the settings in the state of the chain head
\* when there is a chain head, and in the state of the candidate header's
\* own state root only when there is none: every setting with a value in
\* that state takes this value.
C15_StateRootRead ==
    [][(ret'.op = "initialize_block" /\ initialize_block)
         => /\ ViewRead[MinKey].tag = "value"
                 => min_wait_time' = ViewRead[MinKey].value
            /\ ViewRead[MaxKey].tag = "value"
                 => max_wait_time' = ViewRead[MaxKey].value
            /\ ViewRead[PublishersKey].tag = "value"
                 => valid_block_publishers' = ViewRead[PublishersKey].value
            /\ chain_head # PyNone
                 => ViewRead = create_view(chain_head.state_root_hash)
            /\ chain_head = PyNone
                 => ViewRead = create_view(block_header.state_root_hash)]_vars

\* initialize_block has read min_wait_time = 2 in the state of the chain
\* head, the candidate header's own state having min_wait_time = 1.
C15_Witness ==
    /\ ret.op = "initialize_block"
    /\ chain_head # PyNone
    /\ chain_head.state_root_hash = <<"min", 2>>
    /\ block_header.state_root_hash = <<"min", 1>>
    /\ min_wait_time = 2
    /\ start_time = now

\* C18: when two heads have the same block number and the same tie-break
\* integer, compare_forks returns false in both orders: a node keeps its
\* current head, and two nodes that hold the two heads each keep their own.
C18_TieKeepsCurrent ==
    \A n \in Nodes :
        (fork_ret[n] # "none"
         /\ fork[n].cur_fork_head.block_num = fork[n].new_fork_head.block_num
         /\ TieBreak(fork[n].cur_fork_head) = TieBreak(fork[n].new_fork_head))
            => /\ fork_ret[n] = "False"
               /\ \A m \in Nodes :
                     (OppositeFork(m, n) /\ fork_ret[m] # "none")
                        => fork_ret[m] = "False"

\* Two nodes hold two different blocks of one signer on one previous block
\* and each has compared its own with the other's.
C18_Witness ==
    /\ ComparedBothWays(1, 2)
    /\ fork[1].cur_fork_head # fork[1].new_fork_head
    /\ Fields(fork[1].cur_fork_head) = Fields(fork[1].new_fork_head)
    /\ fork_ret[1] = "False"
    /\ fork_ret[2] = "False"

\* C19: within one claim attempt (no initialize_block, the same signer, a
\* clock that does not go back) check_publish_block is monotone: once a
\* poll returns true, every later poll returns true.
C19_MonotonePoll ==
    /\ [](Polled => ret.value = PollValue)
    /\ [][(/\ block_header'.signer_pubkey = block_header.signer_pubkey
           /\ PollValue = "True"
           /\ ~(ret'.op = "initialize_block" /\ initialize_block))
             => PollValue' = "True"]_vars

\* A poll returns true later than the deadline of a random delay.
C19_Witness ==
    /\ Polled
    /\ ret.value = "True"
    /\ block_header.consensus = "Devmode"
    /\ 0 < min_wait_time
    /\ min_wait_time < max_wait_time
    /\ now > start_time + wait_time

\* The greater of two numbers.
Max(a, b) == IF a >= b THEN a ELSE b

\* C20: for a signer that may publish and a configuration with
\* min_wait_time = 0, or min_wait_time > 0 and max_wait_time <= 0, or
\* max_wait_time > min_wait_time > 0, every poll at or after the time
\* start_time + max(min_wait_time, max_wait_time) returns true: a host that
\* keeps polling while the clock advances gets true no later than the first
\* such poll.
C20_PublishesByDeadline ==
    (/\ Polled
     /\ Authorized
     /\ \/ min_wait_time = 0
        \/ min_wait_time > 0 /\ max_wait_time <= 0
        \/ max_wait_time > min_wait_time /\ min_wait_time > 0
     /\ now >= start_time + Max(min_wait_time, max_wait_time))
        => ret.value = "True"

\* The first poll at the time start_time + max_wait_time of a random delay
\* whose wait time is max_wait_time.
C20_Witness ==
    /\ Polled
    /\ Authorized
    /\ block_header.consensus = "Devmode"
    /\ 0 < min_wait_time
    /\ min_wait_time < max_wait_time
    /\ wait_time = max_wait_time
    /\ now = start_time + max_wait_time
    /\ ret.value = "True"

\* C16: check_publish_block, finalize_block, verify_block and
\* compare_forks change nothing: no field of the candidate's header or of
\* the heads of a fork, and no configuration, start time or wait time of the
\* BlockPublisher; the only write to a header is initialize_block setting
\* consensus; finalize_block always returns True.
C16_ReadOnly ==
    /\ [](ret.op = "finalize_block" => ret.value = "True")
    /\ [][(\/ check_publish_block
           \/ finalize_block
           \/ verify_block
           \/ \E n \in Nodes : CompareForks(n))
            => /\ block_header' = block_header
               /\ fork' = fork
               /\ publisher' = publisher]_vars
    /\ [][block_header' # block_header
            => /\ initialize_block
               /\ block_header' =
                     [block_header EXCEPT !.consensus = "Devmode"]]_vars

C16_Witness ==
    /\ ret.op = "finalize_block"
    /\ ret.value = "True"
    /\ block_header.consensus = "Devmode"
    /\ min_wait_time > 0
    /\ now > start_time
    /\ \A n \in Nodes : fork_ret[n] # "none"

\* The head the nodes should agree on: the greatest block number and,
\* among the heads of that height, the smallest tie-break integer.
Preferred(g, h) ==
    \/ g.block_num > h.block_num
    \/ /\ g.block_num = h.block_num
       /\ NumLess(TieBreak(g), TieBreak(h))

BestHead ==
    CHOOSE g \in candidates : \A h \in candidates \ {g} : Preferred(g, h)

\* C17: for heads whose (block number, tie-break integer) pairs differ
\* pairwise, a node that starts from any of them and receives the others in
\* any order, replacing its head exactly when compare_forks(current, new)
\* returns True, ends with the head of the greatest block number and, among
\* those, the smallest tie-break integer, as every other node does.
C17_Convergence ==
    /\ \E g \in candidates : \A h \in candidates \ {g} : Preferred(g, h)
    /\ \A n \in Nodes :
          pending[n] = {} => fork[n].cur_fork_head = BestHead
    /\ \A m \in Nodes : \A n \in Nodes :
          (pending[m] = {} /\ pending[n] = {})
              => fork[m].cur_fork_head = fork[n].cur_fork_head

C17_Witness ==
    /\ Cardinality(candidates) >= 3
    /\ \E g \in candidates : \E h \in candidates \ {g} :
          g.block_num = h.block_num /\ g.block_num = BestHead.block_num
    /\ \A n \in Nodes : pending[n] = {}
    /\ fork_ret[1] = "True"
    /\ fork_ret[2] = "False"
    /\ fork[1].cur_fork_head = BestHead
    /\ fork[2].cur_fork_head = BestHead

====
